---- MODULE Spec2Model ----
(***************************************************************************)
(* Model of streamlit_app.py: the "Video Summarizer" page, the summarizer  *)
(* helper groq_summarize_and_translate, the time utilities, overlapping    *)
(* upload requests, and the account widget with the task and habit tables. *)
(*                                                                         *)
(* Python strings are sequences of one-character strings, so that split,   *)
(* strip, join, int() and the f-string formatting are computed as the code *)
(* computes them.  A video reference is a sequence of URL pieces; no piece *)
(* contains a part of a delimiter the code searches for ('watch?v=',       *)
(* 'youtu.be/', '&', '?'), so searching pieces equals searching            *)
(* characters.                                                             *)
(***************************************************************************)
EXTENDS Integers, Sequences, FiniteSets, TLC

VARIABLES
    GROQ_API_KEY,       \* TRUE iff the secret is set (module global, line 82)
    YTTRANS_AVAILABLE,  \* youtube_transcript_api imported (line 48-53)
    WHISPER_AVAILABLE,  \* whisper imported (line 56-61)
    pc,                 \* position of the script in the Video Summarizer page
    youtube_url,        \* text input (line 673)
    uploaded_video,     \* file uploader: None or the uploaded file's name (line 674)
    transcript_text,    \* line 683
    segments,           \* line 684
    source,             \* line 685
    video_id,           \* line 686
    local_tmp_path,     \* line 687
    depth,              \* active frames of groq_summarize_and_translate
    res,                \* value returned by groq_summarize_and_translate (line 727)
    calls,              \* external collaborators invoked during this request
    screen,             \* elements and messages written to the page
    usage_logs,         \* rows of table usage_logs (line 118)
    tmp_files,          \* files present under /tmp
    tpc,                \* position of the time utilities' caller
    tstr,               \* parse_time_to_seconds: argument
    tsecs,              \* parse_time_to_seconds: outcome
    tlabel,             \* the label rendered for tsecs (line 740-741)
    disk,               \* content of each path under /tmp, shared by all sessions
    rpc,                \* per session: position of its upload request
    rpath,              \* per session: local_tmp_path (line 708)
    heard,              \* per session: the bytes whisper read (line 714)
    played,             \* per session: the bytes read for playback (line 746-747)
    use_supabase,       \* module global (line 91-97)
    user,               \* st.session_state.user (line 363-364)
    users,              \* emails of table users (line 110)
    tasks,              \* rows of table tasks (line 111)
    habits,             \* rows of table habits (line 114)
    last_run            \* what the latest run of the script did

vars == <<GROQ_API_KEY, YTTRANS_AVAILABLE, WHISPER_AVAILABLE, pc, youtube_url,
          uploaded_video, transcript_text, segments, source, video_id,
          local_tmp_path, depth, res, calls, screen, usage_logs, tmp_files,
          tpc, tstr, tsecs, tlabel, disk, rpc, rpath, heard, played,
          use_supabase, user, users, tasks, habits, last_run>>

pageVars == <<GROQ_API_KEY, YTTRANS_AVAILABLE, WHISPER_AVAILABLE, pc, youtube_url,
              uploaded_video, transcript_text, segments, source, video_id,
              local_tmp_path, depth, res, calls, screen, usage_logs, tmp_files>>

timeVars == <<tpc, tstr, tsecs, tlabel>>

uploadVars == <<disk, rpc, rpath, heard, played>>

dbVars == <<use_supabase, user, users, tasks, habits, last_run>>

\* Python's None, where the variable otherwise holds a string.
None == <<"<None>">>

\* the value of res while the name is not bound
Unbound == [unbound |-> TRUE]

----------------------------------------------------------------------------
(* Bounds of the model *)

MaxSegs == 2        \* segments a caption source or whisper returns
MaxLines == 2       \* non-blank lines of a summarizer response
MaxDepth == 2       \* interpreter recursion limit, in frames of the summarizer
MaxHours == 2       \* hours field of the timestamps parsed

----------------------------------------------------------------------------
(* str methods *)

Digits == <<"0", "1", "2", "3", "4", "5", "6", "7", "8", "9">>

isspace(c) == c \in {" ", "\n"}

isdigit(c) == \E d \in 1..10 : Digits[d] = c

\* d occurs in s at index i
OccursAt(s, d, i) ==
    /\ i + Len(d) - 1 <= Len(s)
    /\ \A k \in 1..Len(d) : s[i + k - 1] = d[k]

\* str.find, 1-based; 0 when absent
find(s, d) ==
    LET hits == {i \in 1..Len(s) : OccursAt(s, d, i)}
    IN  IF hits = {} THEN 0 ELSE CHOOSE i \in hits : \A j \in hits : i <= j

\* d in s
contains(s, d) == find(s, d) # 0

RECURSIVE split(_, _)
\* s.split(d)
split(s, d) ==
    LET i == find(s, d)
    IN  IF i = 0 THEN <<s>>
        ELSE <<SubSeq(s, 1, i - 1)>> \o split(SubSeq(s, i + Len(d), Len(s)), d)

\* s.split(d, 1)
split1(s, d) ==
    LET i == find(s, d)
    IN  IF i = 0 THEN <<s>>
        ELSE <<SubSeq(s, 1, i - 1), SubSeq(s, i + Len(d), Len(s))>>

RECURSIVE lstrip(_)
lstrip(s) == IF s # <<>> /\ isspace(Head(s)) THEN lstrip(Tail(s)) ELSE s

RECURSIVE rstrip(_)
rstrip(s) ==
    IF s # <<>> /\ isspace(s[Len(s)]) THEN rstrip(SubSeq(s, 1, Len(s) - 1)) ELSE s

\* s.strip()
strip(s) == lstrip(rstrip(s))

RECURSIVE join(_, _)
\* d.join(parts)
join(parts, d) ==
    IF parts = <<>> THEN <<>>
    ELSE IF Len(parts) = 1 THEN parts[1]
    ELSE parts[1] \o d \o join(Tail(parts), d)

\* s.replace(a, b) for single characters
replace(s, a, b) == [i \in 1..Len(s) |-> IF s[i] = a THEN b ELSE s[i]]

RECURSIVE words_of(_)
\* s.split() : the maximal runs of non-whitespace characters
words_of(s) ==
    LET t == lstrip(s)
        sp == {i \in 1..Len(t) : isspace(t[i])}
        e == IF sp = {} THEN Len(t) + 1 ELSE CHOOSE i \in sp : \A j \in sp : i <= j
    IN  IF t = <<>> THEN <<>>
        ELSE <<SubSeq(t, 1, e - 1)>> \o words_of(SubSeq(t, e, Len(t)))

\* parts[:n]
take(parts, n) == SubSeq(parts, 1, IF Len(parts) < n THEN Len(parts) ELSE n)

----------------------------------------------------------------------------
(* int(), float() and the f-string number formatting *)

DigitVal(c) == (CHOOSE d \in 1..10 : Digits[d] = c) - 1

RECURSIVE NatOf(_)
\* value of a non-empty string of digits
NatOf(s) == IF s = <<>> THEN 0 ELSE 10 * NatOf(SubSeq(s, 1, Len(s) - 1)) + DigitVal(s[Len(s)])

AllDigits(s) == s # <<>> /\ \A i \in 1..Len(s) : isdigit(s[i])

Ok(n) == [ok |-> TRUE, val |-> n]
Raise(e) == [ok |-> FALSE, err |-> e]

\* int(p) for a str p: surrounding whitespace and one sign are accepted
\* (the alphabet of the model has no '_' digit separators)
int(p) ==
    LET t == strip(p)
        neg == t # <<>> /\ t[1] = "-"
        body == IF t # <<>> /\ t[1] \in {"-", "+"} THEN Tail(t) ELSE t
    IN  IF AllDigits(body) THEN Ok(IF neg THEN 0 - NatOf(body) ELSE NatOf(body))
        ELSE Raise("ValueError")

\* int(float(s)): the decimal literal truncated toward zero
\* (the alphabet of the model has no exponent, 'inf' or 'nan' spellings)
int_float(s) ==
    LET t == strip(s)
        neg == t # <<>> /\ t[1] = "-"
        body == IF t # <<>> /\ t[1] \in {"-", "+"} THEN Tail(t) ELSE t
        fs == split(body, <<".">>)
        whole == fs[1]
        frac == IF Len(fs) = 2 THEN fs[2] ELSE <<>>
        wellformed ==
            /\ Len(fs) <= 2
            /\ \A i \in 1..Len(whole) : isdigit(whole[i])
            /\ \A i \in 1..Len(frac) : isdigit(frac[i])
            /\ whole # <<>> \/ frac # <<>>
    IN  IF wellformed THEN Ok(IF neg THEN 0 - NatOf(whole) ELSE NatOf(whole))
        ELSE Raise("ValueError")

RECURSIVE NatStr(_)
NatStr(n) == IF n < 10 THEN <<Digits[n + 1]>> ELSE NatStr(n \div 10) \o <<Digits[(n % 10) + 1]>>

\* f"{n}"
str(n) == IF n < 0 THEN <<"-">> \o NatStr(0 - n) ELSE NatStr(n)

\* f"{n:02d}"
fmt02d(n) == IF n < 0 THEN str(n) ELSE IF n < 10 THEN <<"0">> \o NatStr(n) ELSE NatStr(n)

----------------------------------------------------------------------------
(* Utilities: time parsing *)

\* parse_time_to_seconds(tstr): Ok(seconds), or the exception that leaves it
parse_time_to_seconds(t0) ==
    LET t1 == strip(t0)
        t == IF t1 # <<>> /\ t1[Len(t1)] = "s" THEN SubSeq(t1, 1, Len(t1) - 1) ELSE t1
        fields == split(t, <<":">>)
        parts == [i \in 1..Len(fields) |-> int(fields[i])]
        tail == int_float(t)
    IN  IF contains(t, <<":">>) /\ \E i \in 1..Len(parts) : ~parts[i].ok
             THEN Raise("ValueError")
        ELSE IF contains(t, <<":">>) /\ Len(parts) = 2
             THEN Ok(parts[1].val * 60 + parts[2].val)
        ELSE IF contains(t, <<":">>) /\ Len(parts) = 3
             THEN Ok(parts[1].val * 3600 + parts[2].val * 60 + parts[3].val)
        ELSE IF tail.ok THEN tail ELSE Ok(0)

\* minsec with the seconds not padded to two digits
minsec_unpadded(s) == str(s \div 60) \o <<":">> \o str(s % 60)

\* f"{mins}:{secs:02d}" with mins = s // 60, secs = s % 60
minsec(s) == str(s \div 60) \o <<":">> \o fmt02d(s % 60)

----------------------------------------------------------------------------
(* Inputs of the Video Summarizer page *)

\* canonical ids of the videos referred to
Ids == {<<"dQw4w9WgXcQ">>}

WatchV == <<"watch", "?", "v=">>      \* 'watch?v='
YoutuBe == <<"youtu.be/">>            \* 'youtu.be/'

\* the reference shapes of a video; "watch_late" is a watch link whose id
\* parameter is not the first query parameter
Shapes == {"watch", "watch_late", "short", "embed", "shorts", "bare"}

\* the reference string of shape sh for the video id, with (tr) or without
\* trailing tracking parameters
RefString(sh, id, tr) ==
    CASE sh = "watch" ->
            <<"https://www.youtube.com/">> \o WatchV \o id
                \o (IF tr THEN <<"&", "si=x">> ELSE <<>>)
      [] sh = "watch_late" ->
            <<"https://www.youtube.com/", "watch", "?", "feature=share", "&", "v=">> \o id
                \o (IF tr THEN <<"&", "si=x">> ELSE <<>>)
      [] sh = "short" ->
            <<"https://">> \o YoutuBe \o id \o (IF tr THEN <<"?", "si=x">> ELSE <<>>)
      [] sh = "embed" ->
            <<"https://www.youtube.com/", "embed/">> \o id
                \o (IF tr THEN <<"?", "si=x">> ELSE <<>>)
      [] sh = "shorts" ->
            <<"https://www.youtube.com/", "shorts/">> \o id
                \o (IF tr THEN <<"?", "si=x">> ELSE <<>>)
      [] sh = "bare" -> id

ShapedRefs == {RefString(sh, id, tr) : sh \in Shapes, id \in Ids, tr \in BOOLEAN}

\* strings that are no reference to a video
OtherRefs == {<<"not a video">>, <<"https://", "vimeo.com/", "123">>}

\* what the user may type in the URL box; <<>> is the box left blank
UrlInputs == ShapedRefs \cup OtherRefs \cup {<<>>}

\* what the user may upload: nothing, or a file of this name
UploadInputs == {None, <<"v.mp4">>}

\* the URL box and the uploader when the button is pressed: a URL alone, a
\* file alone, neither, or a file together with a bare identifier
ClickInputs ==
    {<<url, None>> : url \in UrlInputs}
        \cup {<<url, up>> : url \in {<<>>} \cup Ids, up \in UploadInputs \ {None}}

\* texts of the segments a caption source or whisper may return
SegTexts == {<<>>, <<"a">>, <<"a", ".", " ", "b">>}

\* the raw items of a transcript: item i starts at 2.5 * (i - 1) seconds,
\* held in tenths of a second
RawItems(texts) == [i \in 1..Len(texts) |-> [start |-> 25 * (i - 1), text |-> texts[i]]]

RawTranscripts ==
    {RawItems(t) : t \in UNION {[1..n -> SegTexts] : n \in 0..MaxSegs}}

\* exceptions of youtube_transcript_api
CaptionErrors == {"NoTranscriptFound"}

\* lines a summarizer response may contain
RespLines == {
    <<"0", ":", "0", "5", " ", "-", " ", "a">>,
    <<"1", ":", "0", "0", " ", "-", " ", "b">>,
    <<"x">>,
    <<" ", "1", ".", " ", "0", ":", "0", "5", " ", "-", " ", "a">> }

\* the 'text' of a summarizer response
RespTexts ==
    {join(ls, <<"\n">>) : ls \in UNION {[1..n -> RespLines] : n \in 0..MaxLines}}

\* the user the page runs for (line 668)
user_id == <<"u">>

\* the code of the language selected, "English" by default (line 676-679, 724)
lang_code == "en"

truthy(s) == s # None /\ s # <<>>

----------------------------------------------------------------------------
(* groq_summarize_and_translate *)

\* lines 148-155 and 187-192: the five snippets.  int((i / 5) * length) and
\* int(pos / 2.5) are floats truncated; for the lengths of the model they
\* equal the integer quotients below.
snippets(transcript) ==
    LET words == words_of(transcript)
        length == IF Len(words) = 0 THEN 1 ELSE Len(words)
    IN  [k \in 1..5 |->
            LET pos == ((k - 1) * length) \div 5
                hi == IF pos + 20 < Len(words) THEN pos + 20 ELSE Len(words)
            IN  [start |-> (2 * pos) \div 5,
                 text |-> join(SubSeq(words, pos + 1, hi), <<" ">>)]]

\* lines 144-156: the path taken when GROQ_API_KEY is not set
heuristic(transcript) ==
    LET sent == split(replace(transcript, "\n", " "), <<".", " ">>)
    IN  [summary |-> strip(join(take(sent, 3), <<".", " ">>)),
         highlights |-> snippets(transcript),
         language |-> lang_code]

\* line 175: the stripped non-blank lines of the response text
resp_lines(text) ==
    LET raw == split(text, <<"\n">>)
    IN  SelectSeq([i \in 1..Len(raw) |-> strip(raw[i])], LAMBDA l : l # <<>>)

\* line 178-179: the line is a highlight item
is_item(ln) ==
    LET parts == split1(ln, <<" ", "-", " ">>)
    IN  Len(parts) = 2 /\ \E i \in 1..Len(parts[1]) : isdigit(parts[1][i])

\* lines 172-193: the response parsed; Raise when parse_time_to_seconds raises
parse_response(text, transcript) ==
    LET lines == resp_lines(text)
        items == SelectSeq(lines, is_item)
        summary_lines == SelectSeq(lines, LAMBDA l : ~is_item(l))
        secs == [i \in 1..Len(items) |->
                    parse_time_to_seconds(split1(items[i], <<" ", "-", " ">>)[1])]
        parsed == [i \in 1..Len(items) |->
                    [start |-> secs[i].val,
                     text |-> strip(split1(items[i], <<" ", "-", " ">>)[2])]]
    IN  IF \E i \in 1..Len(items) : ~secs[i].ok THEN Raise("ValueError")
        ELSE Ok([summary |-> join(take(summary_lines, 3), <<"\n">>),
                 highlights |-> IF parsed = <<>> THEN snippets(transcript) ELSE parsed,
                 language |-> lang_code])

----------------------------------------------------------------------------
(* Transcript extraction functions *)

\* line 207 and 215: int(item['start']) of each raw item
to_segments(raw) ==
    [i \in 1..Len(raw) |-> [start |-> raw[i].start \div 10, text |-> raw[i].text]]

\* line 215: whisper segments have their text stripped as well
to_whisper_segments(raw) ==
    [i \in 1..Len(raw) |-> [start |-> raw[i].start \div 10, text |-> strip(raw[i].text)]]

\* line 703 and 717: " ".join([s['text'] for s in segments])
joined_text(segs) == join([i \in 1..Len(segs) |-> segs[i].text], <<" ">>)

\* lines 692-697: the video id taken from the URL box
resolve_video_id(url) ==
    IF contains(url, WatchV) THEN split(split(url, WatchV)[2], <<"&">>)[1]
    ELSE IF contains(url, YoutuBe) THEN split(split(url, YoutuBe)[2], <<"?">>)[1]
    ELSE url

----------------------------------------------------------------------------
(* Usage tracking and page output *)

\* lines 220-230
log_usage(logs, user_identifier, action, detail) ==
    Append(logs, [user_email |-> user_identifier, action |-> action, detail |-> detail])

Msg(kind, text) == [kind |-> kind, text |-> text]

\* lines 741, 766, 774, 780: the label of a highlight, its text cut at n characters
label(h, n) == [stamp |-> minsec(h.start), text |-> take(h.text, n)]

\* line 739: the link of a highlight into the embedded YouTube player
embed_link(vid, s) ==
    <<"https://www.youtube.com/embed/">> \o vid \o <<"?start=">> \o str(s) \o <<"&autoplay=1">>

\* line 767: the onclick handler of a highlight of a local video
jump_to(s) == <<"jumpTo(">> \o str(s) \o <<");return false;">>

\* render with the highlights of a local video linked like hosted ones
render_local_linked(src, vid, path, r, files) ==
    LET hs == r.highlights
        head == <<[kind |-> "summary", text |-> r.summary]>>
    IN  IF src = "youtube" /\ truthy(vid)
        THEN head \o <<[kind |-> "iframe", video |-> vid]>>
                  \o [i \in 1..Len(hs) |->
                        [kind |-> "link", video |-> vid, start |-> hs[i].start,
                         href |-> embed_link(vid, hs[i].start),
                         label |-> label(hs[i], 120)]]
        ELSE IF src = "local" /\ truthy(path)
        THEN head \o <<[kind |-> "video", path |-> path]>>
                  \o [i \in 1..Len(hs) |->
                        [kind |-> "link", video |-> path, start |-> hs[i].start,
                         href |-> embed_link(path, hs[i].start),
                         label |-> label(hs[i], 120)]]
        ELSE head \o [i \in 1..Len(hs) |-> [kind |-> "text", label |-> label(hs[i], 200)]]

\* lines 728-781: what the page shows for a result, per playback context
render(src, vid, path, r, files) ==
    LET hs == r.highlights
        head == <<[kind |-> "summary", text |-> r.summary]>>
    IN  IF src = "youtube" /\ truthy(vid)
        THEN head \o <<[kind |-> "iframe", video |-> vid]>>
                  \o [i \in 1..Len(hs) |->
                        [kind |-> "link", video |-> vid, start |-> hs[i].start,
                         href |-> embed_link(vid, hs[i].start),
                         label |-> label(hs[i], 120)]]
        ELSE IF src = "local" /\ truthy(path)
        THEN IF path \in files
             THEN head \o <<[kind |-> "video", path |-> path]>>
                       \o [i \in 1..Len(hs) |->
                             [kind |-> "seek", start |-> hs[i].start,
                              href |-> <<"#">>, onclick |-> jump_to(hs[i].start),
                              label |-> label(hs[i], 120)]]
             ELSE head \o <<Msg("error", "Local playback failed")>>
                       \o [i \in 1..Len(hs) |->
                             [kind |-> "text", label |-> label(hs[i], 200)]]
        ELSE head \o [i \in 1..Len(hs) |-> [kind |-> "text", label |-> label(hs[i], 200)]]

----------------------------------------------------------------------------
(* The Video Summarizer page, lines 667-783 *)

PageInit ==
    /\ pc = "idle"
    /\ youtube_url = <<>>
    /\ uploaded_video = None
    /\ transcript_text = <<>>
    /\ segments = <<>>
    /\ source = "None"
    /\ video_id = None
    /\ local_tmp_path = None
    /\ depth = 0
    /\ res = Unbound
    /\ calls = <<>>
    /\ screen = <<>>
    /\ usage_logs = <<>>
    /\ tmp_files = {}

TimeIdle ==
    /\ tpc = "idle"
    /\ tstr = <<>>
    /\ tsecs = Ok(0)
    /\ tlabel = <<>>

\* the sessions whose requests may overlap, and the names of their uploads
Sessions == {1, 2}

FileNames == {<<"v.mp4">>, <<"w.mp4">>}

TmpPaths == {<<"/tmp/">> \o n : n \in FileNames}

\* no upload request has started
UploadIdle ==
    /\ disk = [p \in TmpPaths |-> "absent"]
    /\ rpc = [r \in Sessions |-> "idle"]
    /\ rpath = [r \in Sessions |-> None]
    /\ heard = [r \in Sessions |-> "nothing"]
    /\ played = [r \in Sessions |-> "nothing"]

\* st.session_state.user is None (line 363-364)
NoUser == [signed_in |-> FALSE]

\* the script has not run in this session
NoRun == [app_mode |-> "None", button |-> "None", stopped |-> FALSE, input |-> 0,
          user_identifier |-> None, ops |-> <<>>, shown |-> {}]

\* the local tables are empty and nobody is signed in
DbIdle ==
    /\ use_supabase = FALSE
    /\ user = NoUser
    /\ users = {}
    /\ tasks = <<>>
    /\ habits = <<>>
    /\ last_run = NoRun

Init ==
    /\ GROQ_API_KEY \in BOOLEAN
    /\ YTTRANS_AVAILABLE \in BOOLEAN
    /\ WHISPER_AVAILABLE \in BOOLEAN
    /\ PageInit
    /\ TimeIdle
    /\ UploadIdle
    /\ DbIdle

\* a collaborator is called; its outcome is recorded when the call ends
Call(fn, arg) == [fn |-> fn, arg |-> arg, outcome |-> "pending"]

Ended(cl, outcome) == [cl EXCEPT ![Len(cl)].outcome = outcome]

NotAvailable == Msg("info", "Transcript not available")

\* Finish with the transcript text written into the usage log
Finish_logs_transcript(src, vid, path, files, text, r, scr) ==
    /\ pc' = "done"
    /\ depth' = 0
    /\ res' = r
    /\ screen' = scr \o render(src, vid, path, r, files)
    /\ usage_logs' = log_usage(usage_logs, user_id, "video_summary",
                               [source |-> src, len |-> Len(text), text |-> text])

\* lines 728-781: the result r is shown and the usage is logged
Finish(src, vid, path, files, text, r, scr) ==
    /\ pc' = "done"
    /\ depth' = 0
    /\ res' = r
    /\ screen' = scr \o render(src, vid, path, r, files)
    /\ usage_logs' = log_usage(usage_logs, user_id, "video_summary",
                               [source |-> src, len |-> Len(text)])

\* lines 722-727 and 782-783, up to the summarizer's HTTP request
AfterAcquire(src, vid, path, files, text, scr, cl) ==
    IF text # <<>>
    THEN IF ~GROQ_API_KEY
         THEN /\ Finish(src, vid, path, files, text, heuristic(text), scr)
              /\ calls' = cl
         ELSE /\ pc' = "groq_post"
              /\ depth' = 1
              /\ calls' = Append(cl, Call("requests.post", take(text, 20000)))
              /\ screen' = scr
              /\ UNCHANGED <<res, usage_logs>>
    ELSE /\ pc' = "done"
         /\ screen' = Append(scr, NotAvailable)
         /\ calls' = cl
         /\ UNCHANGED <<depth, res, usage_logs>>

\* SummarizeClick with the upload saved to /tmp before the URL is looked at
SummarizeClick_saves_upload ==
    /\ pc = "idle"
    /\ \E inp \in ClickInputs :
      LET url == inp[1]
          up == inp[2]
      IN
        /\ youtube_url' = url
        /\ uploaded_video' = up
        /\ IF url # <<>>
           THEN /\ source' = "youtube"
                /\ video_id' = resolve_video_id(url)
                /\ local_tmp_path' = IF up # None THEN <<"/tmp/">> \o up ELSE local_tmp_path
                /\ tmp_files' = IF up # None THEN tmp_files \cup {<<"/tmp/">> \o up}
                                 ELSE tmp_files
                /\ UNCHANGED <<transcript_text, segments>>
                /\ IF ~YTTRANS_AVAILABLE
                   THEN AfterAcquire("youtube", resolve_video_id(url), None, tmp_files, <<>>,
                            <<Msg("error", "youtube_transcript_api not installed")>>, <<>>)
                   ELSE /\ pc' = "caption_call"
                        /\ calls' = <<Call("extract_youtube_transcript", resolve_video_id(url))>>
                        /\ UNCHANGED <<depth, res, screen, usage_logs>>
           ELSE IF up # None
           THEN /\ source' = "local"
                /\ local_tmp_path' = <<"/tmp/">> \o up
                /\ tmp_files' = tmp_files \cup {<<"/tmp/">> \o up}
                /\ UNCHANGED <<video_id, transcript_text, segments>>
                /\ IF ~WHISPER_AVAILABLE
                   THEN AfterAcquire("local", None, <<"/tmp/">> \o up,
                            tmp_files \cup {<<"/tmp/">> \o up}, <<>>,
                            <<Msg("error", "Whisper not installed")>>, <<>>)
                   ELSE /\ pc' = "whisper_call"
                        /\ calls' = <<Call("transcribe_local_whisper", <<"/tmp/">> \o up)>>
                        /\ UNCHANGED <<depth, res, screen, usage_logs>>
           ELSE /\ AfterAcquire("None", None, None, tmp_files, <<>>,
                        <<Msg("error", "Provide a YouTube URL or upload a local video")>>, <<>>)
                /\ UNCHANGED <<source, video_id, local_tmp_path, tmp_files,
                               transcript_text, segments>>
    /\ UNCHANGED <<GROQ_API_KEY, YTTRANS_AVAILABLE, WHISPER_AVAILABLE>>
    /\ UNCHANGED <<timeVars, uploadVars, dbVars>>

\* lines 682-721: "Summarize Video" is pressed with url in the URL box and
\* up in the file uploader
SummarizeClick ==
    /\ pc = "idle"
    /\ \E inp \in ClickInputs :
      LET url == inp[1]
          up == inp[2]
      IN
        /\ youtube_url' = url
        /\ uploaded_video' = up
        /\ IF url # <<>>
           THEN /\ source' = "youtube"
                /\ video_id' = resolve_video_id(url)
                /\ UNCHANGED <<local_tmp_path, tmp_files, transcript_text, segments>>
                /\ IF ~YTTRANS_AVAILABLE
                   THEN AfterAcquire("youtube", resolve_video_id(url), None, tmp_files, <<>>,
                            <<Msg("error", "youtube_transcript_api not installed")>>, <<>>)
                   ELSE /\ pc' = "caption_call"
                        /\ calls' = <<Call("extract_youtube_transcript", resolve_video_id(url))>>
                        /\ UNCHANGED <<depth, res, screen, usage_logs>>
           ELSE IF up # None
           THEN /\ source' = "local"
                /\ local_tmp_path' = <<"/tmp/">> \o up
                /\ tmp_files' = tmp_files \cup {<<"/tmp/">> \o up}
                /\ UNCHANGED <<video_id, transcript_text, segments>>
                /\ IF ~WHISPER_AVAILABLE
                   THEN AfterAcquire("local", None, <<"/tmp/">> \o up,
                            tmp_files \cup {<<"/tmp/">> \o up}, <<>>,
                            <<Msg("error", "Whisper not installed")>>, <<>>)
                   ELSE /\ pc' = "whisper_call"
                        /\ calls' = <<Call("transcribe_local_whisper", <<"/tmp/">> \o up)>>
                        /\ UNCHANGED <<depth, res, screen, usage_logs>>
           ELSE /\ AfterAcquire("None", None, None, tmp_files, <<>>,
                        <<Msg("error", "Provide a YouTube URL or upload a local video")>>, <<>>)
                /\ UNCHANGED <<source, video_id, local_tmp_path, tmp_files,
                               transcript_text, segments>>
    /\ UNCHANGED <<GROQ_API_KEY, YTTRANS_AVAILABLE, WHISPER_AVAILABLE>>
    /\ UNCHANGED <<timeVars, uploadVars, dbVars>>

\* lines 701-703: the caption service returns raw
CaptionReturns ==
    /\ pc = "caption_call"
    /\ \E raw \in RawTranscripts :
        /\ segments' = to_segments(raw)
        /\ transcript_text' = joined_text(to_segments(raw))
        /\ AfterAcquire(source, video_id, local_tmp_path, tmp_files,
                        joined_text(to_segments(raw)), screen, Ended(calls, "returned"))
    /\ UNCHANGED <<GROQ_API_KEY, YTTRANS_AVAILABLE, WHISPER_AVAILABLE, youtube_url,
                   uploaded_video, source, video_id, local_tmp_path, tmp_files>>
    /\ UNCHANGED <<timeVars, uploadVars, dbVars>>

\* CaptionRaises with the failed call made a second time
CaptionRaises_retried ==
    /\ pc = "caption_call"
    /\ \E e \in CaptionErrors :
        IF Len(calls) < 2
        THEN /\ pc' = "caption_call"
             /\ calls' = Append(Ended(calls, e), Call("extract_youtube_transcript", video_id))
             /\ UNCHANGED <<depth, res, screen, usage_logs>>
        ELSE AfterAcquire(source, video_id, local_tmp_path, tmp_files, <<>>,
                     Append(screen, Msg("error", "Failed to extract YouTube transcript")),
                     Ended(calls, e))
    /\ UNCHANGED <<GROQ_API_KEY, YTTRANS_AVAILABLE, WHISPER_AVAILABLE, youtube_url,
                   uploaded_video, source, video_id, local_tmp_path, tmp_files,
                   transcript_text, segments>>
    /\ UNCHANGED <<timeVars, uploadVars, dbVars>>

\* lines 704-705: the caption service raises
CaptionRaises ==
    /\ pc = "caption_call"
    /\ \E e \in CaptionErrors :
        AfterAcquire(source, video_id, local_tmp_path, tmp_files, <<>>,
                     Append(screen, Msg("error", "Failed to extract YouTube transcript")),
                     Ended(calls, e))
    /\ UNCHANGED <<GROQ_API_KEY, YTTRANS_AVAILABLE, WHISPER_AVAILABLE, youtube_url,
                   uploaded_video, source, video_id, local_tmp_path, tmp_files,
                   transcript_text, segments>>
    /\ UNCHANGED <<timeVars, uploadVars, dbVars>>

\* lines 716-717: whisper returns raw
WhisperReturns ==
    /\ pc = "whisper_call"
    /\ \E raw \in RawTranscripts :
        /\ segments' = to_whisper_segments(raw)
        /\ transcript_text' = joined_text(to_whisper_segments(raw))
        /\ AfterAcquire(source, video_id, local_tmp_path, tmp_files,
                        joined_text(to_whisper_segments(raw)), screen,
                        Ended(calls, "returned"))
    /\ UNCHANGED <<GROQ_API_KEY, YTTRANS_AVAILABLE, WHISPER_AVAILABLE, youtube_url,
                   uploaded_video, source, video_id, local_tmp_path, tmp_files>>
    /\ UNCHANGED <<timeVars, uploadVars, dbVars>>

\* lines 718-719: whisper raises
WhisperRaises ==
    /\ pc = "whisper_call"
    /\ AfterAcquire(source, video_id, local_tmp_path, tmp_files, <<>>,
                    Append(screen, Msg("error", "Local transcription failed")),
                    Ended(calls, "RuntimeError"))
    /\ UNCHANGED <<GROQ_API_KEY, YTTRANS_AVAILABLE, WHISPER_AVAILABLE, youtube_url,
                   uploaded_video, source, video_id, local_tmp_path, tmp_files,
                   transcript_text, segments>>
    /\ UNCHANGED <<timeVars, uploadVars, dbVars>>

\* exceptions of requests.post and raise_for_status
GroqErrors == {"Timeout"}

GroqWarning == Msg("warning", "Groq API failed or timed out. Using fallback summarizer.")

\* lines 194-197: the except branch warns and calls the function again with
\* the same arguments; GROQ_API_KEY is still set, so the new frame posts
\* again.  Past the interpreter's recursion limit RecursionError leaves the
\* outermost frame and ends the script run.
ExceptBranch(cl) ==
    IF depth < MaxDepth
    THEN /\ pc' = "groq_post"
         /\ depth' = depth + 1
         /\ calls' = Append(cl, Call("requests.post", take(transcript_text, 20000)))
         /\ screen' = Append(screen, GroqWarning)
         /\ UNCHANGED <<res, usage_logs>>
    ELSE /\ pc' = "crashed"
         /\ depth' = 0
         /\ screen' = screen \o <<GroqWarning, Msg("exception", "RecursionError")>>
         /\ calls' = cl
         /\ UNCHANGED <<res, usage_logs>>

\* lines 170-193: the request returns a response whose text is text
GroqReturns ==
    /\ pc = "groq_post"
    /\ \E text \in RespTexts :
        LET p == parse_response(text, transcript_text)
        IN  IF p.ok
            THEN /\ Finish(source, video_id, local_tmp_path, tmp_files,
                           transcript_text, p.val, screen)
                 /\ calls' = Ended(calls, "returned")
            ELSE ExceptBranch(Ended(calls, "returned"))
    /\ UNCHANGED <<GROQ_API_KEY, YTTRANS_AVAILABLE, WHISPER_AVAILABLE, youtube_url,
                   uploaded_video, source, video_id, local_tmp_path, tmp_files,
                   transcript_text, segments>>
    /\ UNCHANGED <<timeVars, uploadVars, dbVars>>

\* lines 170-171: the request raises (connection error, timeout, HTTP status)
GroqRaises ==
    /\ pc = "groq_post"
    /\ \E e \in GroqErrors : ExceptBranch(Ended(calls, e))
    /\ UNCHANGED <<GROQ_API_KEY, YTTRANS_AVAILABLE, WHISPER_AVAILABLE, youtube_url,
                   uploaded_video, source, video_id, local_tmp_path, tmp_files,
                   transcript_text, segments>>
    /\ UNCHANGED <<timeVars, uploadVars, dbVars>>

Next ==
    \/ SummarizeClick
    \/ CaptionReturns
    \/ CaptionRaises
    \/ WhisperReturns
    \/ WhisperRaises
    \/ GroqReturns
    \/ GroqRaises

Spec == Init /\ [][Next]_vars

----------------------------------------------------------------------------
(* The time utilities applied to timestamps *)

\* minutes and seconds fields of the timestamps parsed
FieldValues == {0, 7, 23, 45, 59}

\* minutes of the M:SS timestamps parsed
MinuteValues == {0, 3, 12, 83}

\* "H:MM:SS"
HmsString(h, m, sec) == str(h) \o <<":">> \o fmt02d(m) \o <<":">> \o fmt02d(sec)

\* "M:SS"
MsString(m, sec) == str(m) \o <<":">> \o fmt02d(sec)

HmsStrings == {HmsString(h, m, sec) : h \in 0..MaxHours, m \in FieldValues, sec \in FieldValues}

MsStrings == {MsString(m, sec) : m \in MinuteValues, sec \in FieldValues}

TimeInit ==
    /\ GROQ_API_KEY = FALSE
    /\ YTTRANS_AVAILABLE = FALSE
    /\ WHISPER_AVAILABLE = FALSE
    /\ PageInit
    /\ tpc = "parse"
    /\ tstr \in HmsStrings \cup MsStrings
    /\ tsecs = Ok(0)
    /\ tlabel = <<>>
    /\ UploadIdle
    /\ DbIdle

\* line 181: secs = parse_time_to_seconds(left)
ParseTime ==
    /\ tpc = "parse"
    /\ tsecs' = parse_time_to_seconds(tstr)
    /\ tpc' = IF parse_time_to_seconds(tstr).ok THEN "render" ELSE "raised"
    /\ UNCHANGED <<tstr, tlabel>>
    /\ UNCHANGED <<pageVars, uploadVars, dbVars>>

\* lines 738-741: s = int(h['start']) is rendered as mins:secs
RenderTime ==
    /\ tpc = "render"
    /\ tlabel' = minsec(tsecs.val)
    /\ tpc' = "done"
    /\ UNCHANGED <<tstr, tsecs>>
    /\ UNCHANGED <<pageVars, uploadVars, dbVars>>

TimeNext == ParseTime \/ RenderTime

TimeSpec == TimeInit /\ [][TimeNext]_vars

----------------------------------------------------------------------------
(* Properties of the summarization request *)

Min(a, b) == IF a < b THEN a ELSE b

\* the script run of the request has ended
Ended_Request == pc \in {"done", "crashed"}

\* indices of the calls of fn made during the request
CallsOf(fn) == {i \in 1..Len(calls) : calls[i].fn = fn}

\* a summarizer request of this run raised or timed out
SummarizerRaised == \E i \in CallsOf("requests.post") : calls[i].outcome \in GroqErrors

\* the summaries written to the page
SummariesShown == {i \in 1..Len(screen) : screen[i].kind = "summary"}

\* C1: when a summarizer key is configured and the summarizer request raises
\* or times out, groq_summarize_and_translate returns the result of the
\* local heuristic path: the call ends, and ends with that result.
C1_ErrorFallsBackToHeuristic ==
    (GROQ_API_KEY /\ SummarizerRaised /\ Ended_Request)
        => (pc = "done" /\ res = heuristic(transcript_text))

\* C2: with a non-empty transcript text, when the summarizer errors or is not
\* configured, the page still shows a non-empty summary and the request is
\* not failed.
C2_NonEmptySummaryOnSummarizerError ==
    (Ended_Request /\ transcript_text # <<>> /\ (~GROQ_API_KEY \/ SummarizerRaised))
        => /\ pc = "done"
           /\ SummariesShown # {}
           /\ \A i \in SummariesShown : screen[i].text # <<>>

\* C3: within one request the summarizer endpoint is called at most once and
\* the caption service at most once, whatever the calls return.
C3_NoAutomaticRetry ==
    /\ Cardinality(CallsOf("requests.post")) <= 1
    /\ Cardinality(CallsOf("extract_youtube_transcript")) <= 1

\* the direct caption service was called and raised, or returned no segment
DirectFailed ==
    \E i \in CallsOf("extract_youtube_transcript") :
        \/ calls[i].outcome \in CaptionErrors
        \/ calls[i].outcome = "returned" /\ segments = <<>>

\* the functions of the page that are no second caption source
KnownCalls == {"extract_youtube_transcript", "transcribe_local_whisper", "requests.post"}

DownstreamRan ==
    \/ res # Unbound
    \/ CallsOf("requests.post") # {}
    \/ SummariesShown # {}
    \/ usage_logs # <<>>

\* C5: the summarizer, the highlight rendering and the usage log run only if
\* the acquired transcript has at least one segment with text; otherwise the
\* request ends with 'transcript not available' and none of those steps.
C5_DownstreamNeedsText ==
    /\ DownstreamRan => \E i \in 1..Len(segments) : segments[i].text # <<>>
    /\ (Ended_Request /\ \A i \in 1..Len(segments) : segments[i].text = <<>>)
            => (~DownstreamRan /\ screen[Len(screen)] = NotAvailable)

\* C6: a reference string that has none of the reference shapes is never
\* passed to the caption service as a video id.
C6_UnrecognizedNeverQueried ==
    (youtube_url # <<>> /\ youtube_url \notin ShapedRefs)
        => \A i \in CallsOf("extract_youtube_transcript") : calls[i].arg # youtube_url

\* C7: for each reference shape, with or without tracking parameters, the
\* video id resolved is exactly the canonical id of the video.
C7_ResolvesCanonicalId ==
    \A sh \in Shapes, id \in Ids, tr \in BOOLEAN :
        (source = "youtube" /\ youtube_url = RefString(sh, id, tr)) => video_id = id

\* the result was built from the five snippets (lines 146-156, 186-192)
SnippetResult == res # Unbound /\ res.highlights = snippets(transcript_text)

\* C8: a transcript of N segments yields exactly min(N, 5) highlights, and
\* no two highlights are the same.
C8_MinOfSegmentsAndFive ==
    SnippetResult
        => /\ Len(res.highlights) = Min(Len(segments), 5)
           /\ \A i, j \in 1..Len(res.highlights) :
                i < j => res.highlights[i] # res.highlights[j]

\* the start offsets of the highlights on the page, in page order
ShownStarts ==
    LET hs == SelectSeq(screen, LAMBDA e : e.kind \in {"link", "seek"})
    IN  [i \in 1..Len(hs) |-> hs[i].start]

\* C9: in every result of the summarize step the highlights are ordered by
\* start offset, as returned and as shown on the page.
C9_HighlightsOrdered ==
    /\ res # Unbound =>
         \A i, j \in 1..Len(res.highlights) :
            i < j => res.highlights[i].start <= res.highlights[j].start
    /\ \A i, j \in 1..Len(ShownStarts) : i < j => ShownStarts[i] <= ShownStarts[j]

----------------------------------------------------------------------------
(* Properties of the time utilities, under TimeSpec *)

\* C10 as stated: a timestamp H:MM:SS or M:SS parsed to seconds and rendered
\* with the page's formatting gives back the same string.
C10_TimestampRoundTrips ==
    tpc = "done" => tlabel = tstr

\* C10 as amended: H:MM:SS parses to H*3600+MM*60+SS seconds and is rendered
\* as minutes:seconds, "(H*60+MM):SS"; M:SS parses to M*60+SS seconds and is
\* rendered as the same string.
C10_RendersMinutesSeconds ==
    /\ tpc # "raised"
    /\ tpc = "done" =>
        /\ \A h \in 0..MaxHours, m \in FieldValues, sec \in FieldValues :
              tstr = HmsString(h, m, sec)
                  => /\ tsecs = Ok(h * 3600 + m * 60 + sec)
                     /\ tlabel = MsString(h * 60 + m, sec)
        /\ \A m \in MinuteValues, sec \in FieldValues :
              tstr = MsString(m, sec)
                  => /\ tsecs = Ok(m * 60 + sec)
                     /\ tlabel = tstr

\* C10 witness: "1:23:45" has been parsed to 5025 seconds and rendered "83:45"
C10_Witness ==
    /\ tpc = "done"
    /\ tstr = <<"1", ":", "2", "3", ":", "4", "5">>
    /\ tsecs = Ok(5025)
    /\ tlabel = <<"8", "3", ":", "4", "5">>

----------------------------------------------------------------------------
(* parse_time_to_seconds applied to arbitrary colon-separated strings *)

MaxFields == 4      \* colon-separated fields of the strings parsed

\* fields of the strings parsed: integers, a seconds field with milliseconds,
\* an empty field and a field that is no number
IntFields == {<<"1">>, <<"2", "3">>}

MilliFields == {<<"4", "5", ".", "6", "7", "8">>}

FieldInputs == IntFields \cup MilliFields \cup {<<>>, <<"x">>}

\* the strings parsed: one to MaxFields fields joined by ':', as they are or
\* with the 's' suffix of line 129
ParseInputs ==
    LET joins == {join(fs, <<":">>) :
                    fs \in UNION {[1..n -> FieldInputs] : n \in 1..MaxFields}}
    IN  joins \cup {j \o <<"s">> : j \in joins}

ParseInit ==
    /\ GROQ_API_KEY = FALSE
    /\ YTTRANS_AVAILABLE = FALSE
    /\ WHISPER_AVAILABLE = FALSE
    /\ PageInit
    /\ tpc = "parse"
    /\ tstr \in ParseInputs
    /\ tsecs = Ok(0)
    /\ tlabel = <<>>
    /\ UploadIdle
    /\ DbIdle

ParseSpec == ParseInit /\ [][TimeNext]_vars

\* the seconds a field stands for, its fraction dropped
WholeOf(f) == NatOf(split(f, <<".">>)[1])

\* C11: strings of two fields (MM:SS) and of three fields (HH:MM:SS) are
\* converted, and when the last field has milliseconds (SS.mmm) the result is
\* the whole seconds, the milliseconds truncated, and nothing is raised.
C11_MillisecondsTruncated ==
    tpc # "parse" =>
        /\ \A m \in IntFields, sec \in IntFields \cup MilliFields :
              tstr = join(<<m, sec>>, <<":">>)
                  => tsecs = Ok(NatOf(m) * 60 + WholeOf(sec))
        /\ \A h \in IntFields, m \in IntFields, sec \in IntFields \cup MilliFields :
              tstr = join(<<h, m, sec>>, <<":">>)
                  => tsecs = Ok(NatOf(h) * 3600 + NatOf(m) * 60 + WholeOf(sec))

\* the string is a time: two or three integer fields, or one decimal number,
\* with or without the 's' suffix
IsTime(t0) ==
    LET t == IF t0 # <<>> /\ t0[Len(t0)] = "s" THEN SubSeq(t0, 1, Len(t0) - 1) ELSE t0
        fs == split(t, <<":">>)
    IN  \/ Len(fs) \in {2, 3} /\ \A i \in 1..Len(fs) : AllDigits(fs[i])
        \/ Len(fs) = 1 /\ int_float(t).ok

\* C19: parse_time_to_seconds is total: for every string it returns an
\* integer without raising, and returns 0 for a string that is no time.
C19_ParseIsTotal ==
    tpc # "parse" =>
        /\ tpc # "raised"
        /\ tsecs.ok
        /\ ~IsTime(tstr) => tsecs = Ok(0)

----------------------------------------------------------------------------
(* Properties of navigation, persistence and playback context *)

\* the highlights on the page, in page order
NavShown == SelectSeq(screen, LAMBDA e : e.kind \in {"link", "seek", "text"})

C15_OnlyUsageLogWritten ==
    /\ Len(usage_logs) <= 1
    /\ \A i \in 1..Len(usage_logs) :
         usage_logs[i] = [user_email |-> user_id, action |-> "video_summary",
                          detail |-> [source |-> source, len |-> Len(transcript_text)]]
    /\ usage_logs # <<>> <=> res # Unbound
    /\ tmp_files \subseteq {<<"/tmp/">> \o uploaded_video}

\* C15 witness: a request has returned a summary and written its log row
C15_Witness ==
    /\ pc = "done"
    /\ res # Unbound
    /\ Len(transcript_text) > 1
    /\ Len(usage_logs) = 1

KindsShown == {screen[i].kind : i \in 1..Len(screen)}

\* C16: one playback context per request: the caption service and whisper
\* are never both called, the highlights shown are never a mix of links and
\* seeks and are of the kind of the source chosen, and a request with a URL
\* writes no file.
C16_OneContextPerRequest ==
    /\ ~(CallsOf("extract_youtube_transcript") # {} /\ CallsOf("transcribe_local_whisper") # {})
    /\ ~({"link", "seek"} \subseteq KindsShown)
    /\ "link" \in KindsShown => source = "youtube"
    /\ "seek" \in KindsShown => source = "local"
    /\ youtube_url # <<>> =>
         (source # "local" /\ local_tmp_path = None /\ tmp_files = {}
            /\ CallsOf("transcribe_local_whisper") = {})

\* C16 witness: a URL and a file were both supplied and the request has
\* shown the highlights as links
C16_Witness ==
    /\ pc = "done"
    /\ youtube_url # <<>>
    /\ uploaded_video # None
    /\ "link" \in KindsShown

\* C13: once a request has finished, on any exit path, no temporary file it
\* created still exists.
C13_TempStorageReleased == Ended_Request => tmp_files = {}

----------------------------------------------------------------------------
(* Overlapping upload requests.  Streamlit runs the script of each browser  *)
(* session in a thread of its own; all threads share the directory /tmp.   *)

\* the bytes each session uploads
UploadedBytes == <<"bytes of session 1", "bytes of session 2">>

UploadInit ==
    /\ GROQ_API_KEY = FALSE
    /\ YTTRANS_AVAILABLE = FALSE
    /\ WHISPER_AVAILABLE \in BOOLEAN
    /\ PageInit
    /\ TimeIdle
    /\ UploadIdle
    /\ DbIdle

\* lines 709-710: the path is made of the upload's name alone; open(.., "wb")
\* creates the file or truncates the one that is there
OpenUpload(r) ==
    /\ rpc[r] = "idle"
    /\ \E n \in FileNames :
        /\ rpath' = [rpath EXCEPT ![r] = <<"/tmp/">> \o n]
        /\ disk' = [disk EXCEPT ![<<"/tmp/">> \o n] = "empty"]
    /\ rpc' = [rpc EXCEPT ![r] = "opened"]
    /\ UNCHANGED <<heard, played>>
    /\ UNCHANGED <<pageVars, timeVars, dbVars>>

\* lines 711-713: the upload is written and the file closed; without whisper
\* the request ends with the error message and the 'not available' note
WriteUpload(r) ==
    /\ rpc[r] = "opened"
    /\ disk' = [disk EXCEPT ![rpath[r]] = UploadedBytes[r]]
    /\ rpc' = [rpc EXCEPT ![r] = IF WHISPER_AVAILABLE THEN "written" ELSE "done"]
    /\ UNCHANGED <<rpath, heard, played>>
    /\ UNCHANGED <<pageVars, timeVars, dbVars>>

\* lines 715-719: whisper reads the file at local_tmp_path; an empty file or
\* a video without speech gives no transcript and ends the request
TranscribeUpload(r) ==
    /\ rpc[r] = "written"
    /\ heard' = [heard EXCEPT ![r] = disk[rpath[r]]]
    /\ \E spoken \in BOOLEAN :
         rpc' = [rpc EXCEPT ![r] =
                    IF spoken /\ disk[rpath[r]] # "empty" THEN "transcribed" ELSE "done"]
    /\ UNCHANGED <<disk, rpath, played>>
    /\ UNCHANGED <<pageVars, timeVars, dbVars>>

\* lines 745-748: the file at local_tmp_path is read again for the player
PlayUpload(r) ==
    /\ rpc[r] = "transcribed"
    /\ played' = [played EXCEPT ![r] = disk[rpath[r]]]
    /\ rpc' = [rpc EXCEPT ![r] = "done"]
    /\ UNCHANGED <<disk, rpath, heard>>
    /\ UNCHANGED <<pageVars, timeVars, dbVars>>

UploadNext ==
    \E r \in Sessions :
        \/ OpenUpload(r)
        \/ WriteUpload(r)
        \/ TranscribeUpload(r)
        \/ PlayUpload(r)

UploadSpec == UploadInit /\ [][UploadNext]_vars

\* C14: under every interleaving of two requests, each request transcribes
\* and plays back only the bytes it uploaded itself.
C14_RequestsIndependent ==
    \A r \in Sessions :
        /\ heard[r] # "nothing" => heard[r] = UploadedBytes[r]
        /\ played[r] # "nothing" => played[r] = UploadedBytes[r]

----------------------------------------------------------------------------
(* Account widget, require_user and the task and habit tables *)

\* most rows a table holds
MaxRows == 2

\* what may be typed in the demo sign-in box; <<>> is the box left empty
DemoEmails == {<<>>, <<"a", "@", "x.org">>}

\* the users supabase.auth.user() may return
SupaUsers == {[id |-> <<"uid-1">>, email |-> <<"a", "@", "x.org">>],
              [id |-> <<"uid-2">>, email |-> <<"b", "@", "x.org">>]}

\* the modules of the sidebar that read or write the task and habit tables
Modules == {"Dashboard", "Daily Planner", "Health & Habits"}

\* require_user without the stop for a missing user
require_user_without_stop(u) ==
    IF u = NoUser THEN [stopped |-> FALSE, id |-> None]
    ELSE IF use_supabase THEN [stopped |-> FALSE, id |-> IF truthy(u.id) THEN u.id ELSE u.email]
    ELSE [stopped |-> FALSE, id |-> u.email]

\* lines 421-428
require_user(u) ==
    IF u = NoUser THEN [stopped |-> TRUE, id |-> None]
    ELSE IF use_supabase THEN [stopped |-> FALSE, id |-> IF truthy(u.id) THEN u.id ELSE u.email]
    ELSE [stopped |-> FALSE, id |-> u.email]

\* add_task storing the row without a status
add_task_no_status(rows, user_identifier) ==
    Append(rows, [id |-> Len(rows) + 1, user |-> user_identifier, status |-> "NULL"])

\* lines 235-241; field user is column user_email, or user_id with Supabase,
\* where the status is left to the remote table
add_task(rows, user_identifier) ==
    Append(rows, [id |-> Len(rows) + 1, user |-> user_identifier,
                  status |-> IF use_supabase THEN "remote default" ELSE "Pending"])

\* lines 243-250
get_tasks(rows, user_identifier) ==
    {rows[i] : i \in {j \in 1..Len(rows) : rows[j].user = user_identifier}}

\* the update of mark_task_done without the condition on the user
mark_task_done_of_anyone(rows, user_identifier, task_id) ==
    [i \in 1..Len(rows) |->
        IF rows[i].id = task_id
        THEN [rows[i] EXCEPT !.status = "Done"] ELSE rows[i]]

\* lines 512-517: UPDATE tasks SET status = 'Done' WHERE id = ? AND user_email = ?
mark_task_done(rows, user_identifier, task_id) ==
    [i \in 1..Len(rows) |->
        IF rows[i].id = task_id /\ rows[i].user = user_identifier
        THEN [rows[i] EXCEPT !.status = "Done"] ELSE rows[i]]

\* lines 296-301
add_habit(rows, user_identifier) ==
    Append(rows, [id |-> Len(rows) + 1, user |-> user_identifier, last_done |-> "NULL"])

\* lines 303-310
get_habits(rows, user_identifier) ==
    {rows[i] : i \in {j \in 1..Len(rows) : rows[j].user = user_identifier}}

\* lines 312-320; done_date is today
mark_habit_done(rows, user_identifier, habit_id) ==
    [i \in 1..Len(rows) |->
        IF rows[i].id = habit_id /\ rows[i].user = user_identifier
        THEN [rows[i] EXCEPT !.last_done = "today"] ELSE rows[i]]

\* a data operation of a run and the identifier it ran with
Op(fn, user_identifier) == [fn |-> fn, user_identifier |-> user_identifier]

Ran(mode, button, n, uid, ops, shown) ==
    [app_mode |-> mode, button |-> button, stopped |-> FALSE, input |-> n,
     user_identifier |-> uid, ops |-> ops, shown |-> shown]

\* lines 421-424: the script stops in require_user
Stopped(mode) ==
    [app_mode |-> mode, button |-> "None", stopped |-> TRUE, input |-> 0,
     user_identifier |-> None, ops |-> <<>>, shown |-> {}]

\* the variables of the Video Summarizer page other than the usage log
pageRest == <<GROQ_API_KEY, YTTRANS_AVAILABLE, WHISPER_AVAILABLE, pc, youtube_url,
              uploaded_video, transcript_text, segments, source, video_id,
              local_tmp_path, depth, res, calls, screen, tmp_files>>

DbInit ==
    /\ GROQ_API_KEY = FALSE
    /\ YTTRANS_AVAILABLE = FALSE
    /\ WHISPER_AVAILABLE = FALSE
    /\ PageInit
    /\ TimeIdle
    /\ UploadIdle
    /\ use_supabase \in BOOLEAN
    /\ user = NoUser
    /\ users = {}
    /\ tasks = <<>>
    /\ habits = <<>>
    /\ last_run = NoRun

\* lines 463-489
Dashboard(uid) ==
    /\ last_run' = Ran("Dashboard", "None", 0, uid,
                       <<Op("get_tasks", uid), Op("get_expenses", uid),
                         Op("get_health_logs", uid)>>,
                       get_tasks(tasks, uid))
    /\ UNCHANGED <<tasks, habits, usage_logs>>

\* lines 491-520; after 'Mark Done' with an id the script is run again
DailyPlanner(uid, button, n) ==
    \/ /\ button = "None" /\ n = 0
       /\ last_run' = Ran("Daily Planner", button, n, uid,
                          <<Op("get_tasks", uid)>>, get_tasks(tasks, uid))
       /\ UNCHANGED <<tasks, habits, usage_logs>>
    \/ /\ button = "Add Task" /\ n = 0
       /\ Len(tasks) < MaxRows
       /\ tasks' = add_task(tasks, uid)
       /\ usage_logs' = log_usage(usage_logs, uid, "add_task", <<"t">>)
       /\ last_run' = Ran("Daily Planner", button, n, uid,
                          <<Op("add_task", uid), Op("log_usage", uid), Op("get_tasks", uid)>>,
                          get_tasks(add_task(tasks, uid), uid))
       /\ UNCHANGED habits
    \/ /\ button = "Mark Done"
       /\ get_tasks(tasks, uid) # {}
       /\ IF n # 0
          THEN /\ tasks' = mark_task_done(tasks, uid, n)
               /\ last_run' = Ran("Daily Planner", button, n, uid,
                                  <<Op("get_tasks", uid), Op("update_tasks", uid),
                                    Op("get_tasks", uid)>>,
                                  get_tasks(mark_task_done(tasks, uid, n), uid))
          ELSE /\ UNCHANGED tasks
               /\ last_run' = Ran("Daily Planner", button, n, uid,
                                  <<Op("get_tasks", uid)>>, get_tasks(tasks, uid))
       /\ UNCHANGED <<habits, usage_logs>>

\* lines 539-585, the habit manager; the health log form writes neither table
HealthAndHabits(uid, button, n) ==
    \/ /\ button = "None" /\ n = 0
       /\ last_run' = Ran("Health & Habits", button, n, uid,
                          <<Op("get_habits", uid), Op("get_health_logs", uid)>>,
                          get_habits(habits, uid))
       /\ UNCHANGED <<tasks, habits, usage_logs>>
    \/ /\ button = "Add Habit" /\ n = 0
       /\ Len(habits) < MaxRows
       /\ habits' = add_habit(habits, uid)
       /\ last_run' = Ran("Health & Habits", button, n, uid,
                          <<Op("add_habit", uid), Op("get_habits", uid),
                            Op("get_health_logs", uid)>>,
                          get_habits(add_habit(habits, uid), uid))
       /\ UNCHANGED <<tasks, usage_logs>>
    \/ /\ button = "Mark Habit Done"
       /\ get_habits(habits, uid) # {}
       /\ IF n # 0
          THEN /\ habits' = mark_habit_done(habits, uid, n)
               /\ last_run' = Ran("Health & Habits", button, n, uid,
                                  <<Op("get_habits", uid), Op("mark_habit_done", uid),
                                    Op("get_habits", uid), Op("get_health_logs", uid)>>,
                                  get_habits(mark_habit_done(habits, uid, n), uid))
          ELSE /\ UNCHANGED habits
               /\ last_run' = Ran("Health & Habits", button, n, uid,
                                  <<Op("get_habits", uid), Op("get_health_logs", uid)>>,
                                  get_habits(habits, uid))
       /\ UNCHANGED <<tasks, usage_logs>>

Buttons == {"None", "Add Task", "Mark Done", "Add Habit", "Mark Habit Done"}

\* lines 459-585: the module selected runs for the session user u
Page(u, mode, button, n) ==
    IF require_user(u).stopped
    THEN /\ button = "None" /\ n = 0
         /\ last_run' = Stopped(mode)
         /\ UNCHANGED <<tasks, habits, usage_logs>>
    ELSE CASE mode = "Dashboard" ->
                /\ button = "None" /\ n = 0
                /\ Dashboard(require_user(u).id)
           [] mode = "Daily Planner" -> DailyPlanner(require_user(u).id, button, n)
           [] mode = "Health & Habits" -> HealthAndHabits(require_user(u).id, button, n)

\* lines 383-389
local_demo_sign_in(email, display_name) ==
    /\ users' = users \cup {email}
    /\ user' = [email |-> email, display_name |-> display_name, id |-> email]

\* lines 413-418: a click on 'Sign in (demo)', then the module selected
SignInDemo ==
    /\ ~use_supabase
    /\ \E demo_email \in DemoEmails, mode \in Modules :
        /\ local_demo_sign_in(demo_email,
                              IF demo_email # <<>> THEN split(demo_email, <<"@">>)[1]
                              ELSE <<"Demo">>)
        /\ Page([email |-> demo_email,
                 display_name |-> IF demo_email # <<>> THEN split(demo_email, <<"@">>)[1]
                                  ELSE <<"Demo">>,
                 id |-> demo_email], mode, "None", 0)
    /\ UNCHANGED <<pageRest, timeVars, uploadVars, use_supabase>>

\* a run of the script in local mode without a click on the sign-in button
LocalRun ==
    /\ ~use_supabase
    /\ \E mode \in Modules, button \in Buttons, n \in 0..MaxRows :
        Page(user, mode, button, n)
    /\ UNCHANGED <<user, users>>
    /\ UNCHANGED <<pageRest, timeVars, uploadVars, use_supabase>>

\* lines 397-412 without a click on 'Sign out': the session user is replaced
\* when Supabase reports a user, and kept when it reports none
SupabaseRun ==
    /\ use_supabase
    /\ \E cur \in SupaUsers \cup {NoUser}, mode \in Modules, button \in Buttons,
          n \in 0..MaxRows :
        /\ user' = IF cur # NoUser THEN cur ELSE user
        /\ Page(IF cur # NoUser THEN cur ELSE user, mode, button, n)
    /\ UNCHANGED users
    /\ UNCHANGED <<pageRest, timeVars, uploadVars, use_supabase>>

\* lines 400-404: 'Sign out' clears the session user and runs the script
\* again, now without a Supabase user
SignOut ==
    /\ use_supabase
    /\ \E mode \in Modules :
        /\ user' = NoUser
        /\ Page(NoUser, mode, "None", 0)
    /\ UNCHANGED users
    /\ UNCHANGED <<pageRest, timeVars, uploadVars, use_supabase>>

DbNext == SignInDemo \/ LocalRun \/ SupabaseRun \/ SignOut

DbSpec == DbInit /\ [][DbNext]_vars

----------------------------------------------------------------------------
(* Properties of the account widget and the tables *)

\* the operations of the latest run
RunOps == {last_run.ops[i] : i \in 1..Len(last_run.ops)}

\* C17: every data operation runs while a user is signed in and with a
\* non-empty user identifier; with no user the script stops before any.
C17_OpsNeedNonEmptyUser ==
    /\ \A op \in RunOps : user # NoUser /\ op.user_identifier # <<>>
    /\ (user = NoUser /\ last_run # NoRun) => (last_run.stopped /\ RunOps = {})

\* C17 as the code has it: every data operation runs while the session user
\* is set, with the identifier require_user returns for that user, which is
\* the email typed at the demo sign-in, empty if the box was empty; with no
\* session user the script stops before any operation.
C17_OpsNeedSessionUser ==
    /\ \A op \in RunOps :
         /\ user # NoUser
         /\ op.user_identifier = (IF use_supabase THEN user.id ELSE user.email)
    /\ (user = NoUser /\ last_run # NoRun) => (last_run.stopped /\ RunOps = {})
    /\ last_run.stopped => (user = NoUser /\ RunOps = {})

\* C17 witness: after a demo sign-in with the box empty a task was added
C17_Witness ==
    /\ ~use_supabase
    /\ user # NoUser
    /\ user.email = <<>>
    /\ Op("add_task", <<>>) \in RunOps

\* C18: a run for user A leaves every task and habit row of another user
\* unchanged, whatever id is entered for 'Mark Done' or 'Mark Habit Done',
\* and the rows get_tasks and get_habits return to A are A's.
C18_RowsOfOthersUntouched ==
    [][/\ \A i \in 1..Len(tasks) :
             tasks[i].user # last_run'.user_identifier => tasks'[i] = tasks[i]
       /\ \A i \in 1..Len(habits) :
             habits[i].user # last_run'.user_identifier => habits'[i] = habits[i]
       /\ \A row \in last_run'.shown : row.user = last_run'.user_identifier]_vars

\* C18 witness: 'Mark Done' was pressed with the id of a pending task of
\* another user
C18_Witness ==
    /\ last_run.button = "Mark Done"
    /\ \E i \in 1..Len(tasks) :
         /\ tasks[i].id = last_run.input
         /\ tasks[i].user # last_run.user_identifier
         /\ tasks[i].status # "Done"

\* C20: in local mode a task is created 'Pending', a step changes a status
\* to 'Done' or not at all, a 'Done' task stays 'Done', no task is removed,
\* and 'Mark Done' with id 0 changes no task.
C20_StatusMonotonic ==
    [][~use_supabase =>
          /\ Len(tasks') >= Len(tasks)
          /\ \A i \in 1..Len(tasks) :
                /\ tasks'[i].status \in {tasks[i].status, "Done"}
                /\ tasks[i].status = "Done" => tasks'[i].status = "Done"
          /\ \A i \in (Len(tasks) + 1)..Len(tasks') : tasks'[i].status = "Pending"
          /\ (last_run'.button = "Mark Done" /\ last_run'.input = 0) => tasks' = tasks]_vars

\* C20 witness: in local mode 'Mark Done' was pressed with id 0 while one
\* task is 'Done' and another 'Pending'
C20_Witness ==
    /\ ~use_supabase
    /\ last_run.button = "Mark Done"
    /\ last_run.input = 0
    /\ \E i, j \in 1..Len(tasks) : tasks[i].status = "Done" /\ tasks[j].status = "Pending"

====
